---- MODULE Spec2Model ----
(***************************************************************************)
(* Model of mmmd's video generator (video.ts): the ANSI style parser       *)
(* parseAnsi, the layout and timeline constants computed in main, and the  *)
(* per-frame loop that resolves zoom, scroll offset and progress bar.      *)
(*                                                                         *)
(* Text is a sequence of one-character strings; the escape character       *)
(* U+001B is written "ESC" and the line break "NL".  Fractions computed by *)
(* the frame loop (zoom, scrollY, barProgress) are kept as exact           *)
(* numerator/denominator pairs.                                            *)
(***************************************************************************)
EXTENDS Integers, Sequences, FiniteSets, TLC

VARIABLES
    pc,         \* position of the run: which step of main comes next
    rendered,   \* renderMarkdown's output, a sequence of characters
    lines,      \* rendered.split('\n').map(parseAnsi)
    size, aspect, padding, fps, overlap,   \* the options o.*
    pageWait2,  \* o.pageWait in half seconds
    contentW,   \* Math.ceil(o.cols * cw)
    f,          \* loop variable of the frame loop
    zoom,       \* zoom of the frame just drawn, [num, den]
    scrollY,    \* scrollY of the frame just drawn, [num, den]
    barProgress,\* barProgress of the frame just drawn, [num, den]; num = -1: no bar
    phase,      \* branch of the if-chain taken for the frame just drawn
    page,       \* currentPage of the frame just drawn (0 outside the scroll phase)
    drawnLines, \* indexes (from 0) of the lines whose text the frame just drawn painted
    inPhase,    \* history: frames drawn before this one in the same phase and page
    entry,      \* the script that was started: "md" (index.ts) or "video" (video.ts)
    args,       \* process.argv.slice(2), as the raw value of every flag
    rest,       \* the options o.cols, o.quality and o.speed, in halves
    exit,       \* exit status of the process; -1 while it runs
    out,        \* what the run has printed: "none", "usage" or "markdown"
    err,        \* the error that ended the run; "none" without one
    fileRead,   \* readFileSync has read the markdown file
    rendererCalls,  \* calls of the markdown renderer
    tmp,        \* the scratch directory: "absent", "present" or "removed"
    files,      \* number of frame files written to the scratch directory
    lastFile,   \* name of the frame file written last, <<>> before the first
    encoderCalls    \* calls of ffmpeg

vars == <<pc, rendered, lines, size, aspect, padding, fps, pageWait2, overlap,
          contentW, f, zoom, scrollY, barProgress, phase, page, drawnLines,
          inPhase, entry, args, rest, exit, out, err, fileRead, rendererCalls, tmp,
          files, lastFile, encoderCalls>>

parseVars == <<rendered, lines>>
optionVars == <<size, aspect, padding, fps, pageWait2, overlap, contentW>>
frameVars == <<f, zoom, scrollY, barProgress, phase, page, drawnLines, inPhase>>
argVars == <<entry, args>>
exitVars == <<exit, out, err>>
fileVars == <<tmp, files, lastFile>>

----------------------------------------------------------------------------
(* Bounds of the model *)

MaxPieces == 3        \* pieces of text that make up a rendered document
MaxLines == 36        \* lines of a rendered document in the frame loop
MaxFps == 3           \* o.fps
MaxPageWait2 == 1     \* o.pageWait, in half seconds
MaxOverlap == 18      \* o.overlap
MinContentW == 652    \* narrowest measured content width
MaxContentW == 1600   \* widest measured content width
MaxFlags == 1         \* option flags given on the command line

----------------------------------------------------------------------------
(* parseAnsi *)

ESC == "ESC"
NL == "NL"
Digits == {"0", "1", "2", "3", "4", "5", "6", "7", "8", "9"}

DigitValue(c) ==
    CASE c = "0" -> 0 [] c = "1" -> 1 [] c = "2" -> 2 [] c = "3" -> 3
      [] c = "4" -> 4 [] c = "5" -> 5 [] c = "6" -> 6 [] c = "7" -> 7
      [] c = "8" -> 8 [] c = "9" -> 9

\* const ANSI: Record<number, string>
ANSI ==
    [c \in (30..37) \cup (90..97) |->
        CASE c % 10 = 0 -> "#8899cc"
          [] c % 10 = 1 -> "#ff5555"
          [] c % 10 = 2 -> "#50fa7b"
          [] c % 10 = 3 -> "#f1fa8c"
          [] c % 10 = 4 -> "#6699ff"
          [] c % 10 = 5 -> "#ff79c6"
          [] c % 10 = 6 -> "#8be9fd"
          [] c % 10 = 7 -> "#ffffff"]

\* style = {}: no key is set
EmptyStyle ==
    [fg |-> "undefined", bold |-> "undefined", italic |-> "undefined",
     underline |-> "undefined", dim |-> "undefined"]

\* the chain with a reset that clears only the colour
ApplyCodeWeakReset(style, c) ==
    IF c = 0 THEN [style EXCEPT !.fg = "undefined"]
    ELSE IF c = 1 THEN [style EXCEPT !.bold = "true"]
    ELSE IF c = 2 THEN [style EXCEPT !.dim = "true"]
    ELSE IF c = 3 THEN [style EXCEPT !.italic = "true"]
    ELSE IF c = 4 THEN [style EXCEPT !.underline = "true"]
    ELSE IF c = 22 THEN [style EXCEPT !.bold = "false", !.dim = "false"]
    ELSE IF c = 23 THEN [style EXCEPT !.italic = "false"]
    ELSE IF c = 24 THEN [style EXCEPT !.underline = "false"]
    ELSE IF c = 39 THEN [style EXCEPT !.fg = "undefined"]
    ELSE IF c \in DOMAIN ANSI THEN [style EXCEPT !.fg = ANSI[c]]
    ELSE style

\* the chain with `style.fg = ANSI[c]` not guarded by `if (ANSI[c])`
ApplyCodeUnguarded(style, c) ==
    IF c = 0 THEN EmptyStyle
    ELSE IF c = 1 THEN [style EXCEPT !.bold = "true"]
    ELSE IF c = 2 THEN [style EXCEPT !.dim = "true"]
    ELSE IF c = 3 THEN [style EXCEPT !.italic = "true"]
    ELSE IF c = 4 THEN [style EXCEPT !.underline = "true"]
    ELSE IF c = 22 THEN [style EXCEPT !.bold = "false", !.dim = "false"]
    ELSE IF c = 23 THEN [style EXCEPT !.italic = "false"]
    ELSE IF c = 24 THEN [style EXCEPT !.underline = "false"]
    ELSE IF c = 39 THEN [style EXCEPT !.fg = "undefined"]
    ELSE IF c \in DOMAIN ANSI THEN [style EXCEPT !.fg = ANSI[c]]
    ELSE [style EXCEPT !.fg = "undefined"]

\* one iteration of `for (const c of ...)`: the if / else-if chain on c
ApplyCode(style, c) ==
    IF c = 0 THEN EmptyStyle
    ELSE IF c = 1 THEN [style EXCEPT !.bold = "true"]
    ELSE IF c = 2 THEN [style EXCEPT !.dim = "true"]
    ELSE IF c = 3 THEN [style EXCEPT !.italic = "true"]
    ELSE IF c = 4 THEN [style EXCEPT !.underline = "true"]
    ELSE IF c = 22 THEN [style EXCEPT !.bold = "false", !.dim = "false"]
    ELSE IF c = 23 THEN [style EXCEPT !.italic = "false"]
    ELSE IF c = 24 THEN [style EXCEPT !.underline = "false"]
    ELSE IF c = 39 THEN [style EXCEPT !.fg = "undefined"]
    ELSE IF c \in DOMAIN ANSI THEN [style EXCEPT !.fg = ANSI[c]]
    ELSE style

\* the loop over the codes of a sequence that stops after the first code
ApplyCodesFirst(style, codes) ==
    IF codes = <<>> THEN style ELSE ApplyCode(style, Head(codes))

\* `for (const c of ...)`: the if-chain applied to the codes in order
RECURSIVE ApplyCodes(_, _)
ApplyCodes(style, codes) ==
    IF codes = <<>> THEN style
    ELSE ApplyCodes(ApplyCode(style, Head(codes)), Tail(codes))

\* Number(s) of a string of decimal digits
RECURSIVE ToNumber(_)
ToNumber(s) ==
    IF s = <<>> THEN 0
    ELSE 10 * ToNumber(SubSeq(s, 1, Len(s) - 1)) + DigitValue(s[Len(s)])

\* seq.split(';'): the pieces between semicolons, empty pieces included
RECURSIVE SplitOn(_, _)
SplitOn(s, sep) ==
    IF \A i \in 1..Len(s) : s[i] # sep THEN <<s>>
    ELSE LET k == CHOOSE i \in 1..Len(s) :
                      s[i] = sep /\ \A j \in 1..(i - 1) : s[j] # sep
         IN  <<SubSeq(s, 1, k - 1)>> \o SplitOn(SubSeq(s, k + 1, Len(s)), sep)

\* seq.split(';').filter(Boolean).map(Number)
RECURSIVE CodesOfParts(_)
CodesOfParts(parts) ==
    IF parts = <<>> THEN <<>>
    ELSE IF Head(parts) = <<>> THEN CodesOfParts(Tail(parts))
    ELSE <<ToNumber(Head(parts))>> \o CodesOfParts(Tail(parts))

CodesOf(seq) == CodesOfParts(SplitOn(seq, ";"))

\* end of the greedy run [0-9;]* that starts at position j
RECURSIVE ParamEnd(_, _)
ParamEnd(text, j) ==
    IF j <= Len(text) /\ text[j] \in Digits \cup {";"} THEN ParamEnd(text, j + 1)
    ELSE j

\* position of the closing m when /\u001b\[([0-9;]*)m/ matches at position i, else 0
MatchAt(text, i) ==
    IF i + 2 <= Len(text) /\ text[i] = ESC /\ text[i + 1] = "["
    THEN LET j == ParamEnd(text, i + 2)
         IN  IF j <= Len(text) /\ text[j] = "m" THEN j ELSE 0
    ELSE 0

\* re.exec(text) with re.lastIndex = from - 1: first match at or after `from`, else 0
RECURSIVE Exec(_, _)
Exec(text, from) ==
    IF from > Len(text) THEN 0
    ELSE IF MatchAt(text, from) # 0 THEN from
    ELSE Exec(text, from + 1)

\* the push before a sequence with a slice that runs one character too far
PushBeforeLong(spans, text, idx, at, style) ==
    IF at > idx
    THEN Append(spans, [text |-> SubSeq(text, idx, at), style |-> style])
    ELSE spans

\* `if (m.index > idx) spans.push(...)`; positions here are 1-based
PushBefore(spans, text, idx, at, style) ==
    IF at > idx
    THEN Append(spans, [text |-> SubSeq(text, idx, at - 1), style |-> style])
    ELSE spans

\* the final push with a test that is off by one
PushRestShort(spans, text, idx, style) ==
    IF idx < Len(text)
    THEN Append(spans, [text |-> SubSeq(text, idx, Len(text)), style |-> style])
    ELSE spans

\* `if (idx < text.length) spans.push(...)` after the loop
PushRest(spans, text, idx, style) ==
    IF idx <= Len(text)
    THEN Append(spans, [text |-> SubSeq(text, idx, Len(text)), style |-> style])
    ELSE spans

\* the while loop of parseAnsi, from the state (idx, style, spans)
RECURSIVE ParseLoop(_, _, _, _)
ParseLoop(text, idx, style, spans) ==
    LET at == Exec(text, idx)
    IN  IF at = 0 THEN PushRest(spans, text, idx, style)
        ELSE LET close == MatchAt(text, at)
                 seq == SubSeq(text, at + 2, close - 1)
             IN  ParseLoop(text, close + 1, ApplyCodes(style, CodesOf(seq)),
                           PushBefore(spans, text, idx, at, style))

parseAnsi(text) == ParseLoop(text, 1, EmptyStyle, <<>>)

\* rendered.split('\n').map(parseAnsi)
ParseLines(text) ==
    LET parts == SplitOn(text, NL)
    IN  [i \in 1..Len(parts) |-> parseAnsi(parts[i])]

----------------------------------------------------------------------------
(* Exact fractions *)

Frac(n, d) == [num |-> n, den |-> d]
Whole(n) == Frac(n, 1)
FracAdd(a, b) == Frac(a.num * b.den + b.num * a.den, a.den * b.den)
FracSub(a, b) == Frac(a.num * b.den - b.num * a.den, a.den * b.den)
FracMul(a, b) == Frac(a.num * b.num, a.den * b.den)
FracEq(a, b) == a.num * b.den = b.num * a.den
FracLess(a, b) == a.num * b.den < b.num * a.den
FracMin(a, b) == IF FracLess(b, a) THEN b ELSE a

\* Math.round(n / d) for n >= 0, d > 0: halves round up
Round(n, d) == (2 * n + d) \div (2 * d)

\* Math.ceil(n / d) for n >= 0, d > 0
Ceil(n, d) == (n + d - 1) \div d

Max(a, b) == IF a > b THEN a ELSE b

\* 1 - Math.pow(1 - p, 3) at p = n / d
Ease(n, d) == Frac(d * d * d - (d - n) * (d - n) * (d - n), d * d * d)

----------------------------------------------------------------------------
(* Layout and timeline constants of main *)

Sizes == {"sm", "md", "lg"}
Aspects == {"square", "landscape", "portrait"}

\* SIZES[size][aspect] as [W, H]
SIZES ==
    [s \in Sizes |->
        LET sq == CASE s = "sm" -> 540 [] s = "md" -> 720 [] s = "lg" -> 1080
            lo == CASE s = "sm" -> 720 [] s = "md" -> 960 [] s = "lg" -> 1440
        IN  [square |-> <<sq, sq>>, landscape |-> <<lo, sq>>, portrait |-> <<sq, lo>>]]

PADDINGS == [sm |-> 30, md |-> 48, lg |-> 64]

W == SIZES[size][aspect][1]
H == SIZES[size][aspect][2]
PAD == PADDINGS[padding]
FONT == IF size = "sm" THEN 12 ELSE IF size = "md" THEN 13 ELSE 15
LH == Round(FONT * 3, 2)
WPAD == Round(PAD * 7, 10)
TITLE_H == 32

winW == contentW + WPAD * 2
winY == PAD
winH == H - PAD * 2

contentTop == winY + TITLE_H
visH == winH - TITLE_H - WPAD
totalH == Len(lines) * LH
\* maxScroll without the floor at zero
maxScrollUnclamped == totalH - visH + WPAD

maxScroll == Max(0, totalH - visH + WPAD)
hasScroll == maxScroll > 0

\* ZOOM_FRAMES with Math.floor in place of Math.round
ZOOM_FRAMESFloor == (fps * 6) \div 10

ZOOM_FRAMES == Round(fps * 6, 10)
zoomScale == Frac(W, winW)

pageHeight == Max(LH, visH - LH * overlap)
\* numPages with Math.floor in place of Math.ceil
numPagesFloor == maxScroll \div pageHeight

numPages == Ceil(maxScroll, pageHeight)
PAGE_SCROLL_FRAMES == Round(fps * 8, 10)
PAGE_PAUSE_FRAMES == Round(fps * pageWait2, 2)
HOLD_AFTER_ZOOM == PAGE_PAUSE_FRAMES
\* scrollFrames that forgets the pause of each page
scrollFramesNoPause == IF hasScroll THEN numPages * PAGE_SCROLL_FRAMES ELSE 0

scrollFrames ==
    IF hasScroll THEN numPages * (PAGE_SCROLL_FRAMES + PAGE_PAUSE_FRAMES) ELSE 0
total ==
    ZOOM_FRAMES + HOLD_AFTER_ZOOM + scrollFrames
        + (IF hasScroll THEN ZOOM_FRAMES ELSE Round(fps * 3, 10))

scrollStart == ZOOM_FRAMES + HOLD_AFTER_ZOOM
scrollEnd == scrollStart + scrollFrames
zoomOutStart == scrollEnd
pageLen == PAGE_SCROLL_FRAMES + PAGE_PAUSE_FRAMES

----------------------------------------------------------------------------
(* One iteration of the frame loop, for frame index i *)

\* branch of `if (f < ZOOM_FRAMES) ... else if ... else` taken by frame i,
\* split in the scroll branch by `frameInPage < PAGE_SCROLL_FRAMES`
FramePhase(i) ==
    IF i < ZOOM_FRAMES THEN "zoomIn"
    ELSE IF i < scrollStart THEN "hold"
    ELSE IF i < scrollEnd
         THEN IF (i - scrollStart) % pageLen < PAGE_SCROLL_FRAMES
              THEN "scroll" ELSE "pause"
    ELSE IF hasScroll THEN "zoomOut"
    ELSE "finalHold"

\* currentPage = Math.floor(scrollFrame / pageLen)
currentPage(i) ==
    IF scrollStart <= i /\ i < scrollEnd THEN (i - scrollStart) \div pageLen ELSE 0

\* frameInPage = scrollFrame % pageLen
frameInPage(i) == (i - scrollStart) % pageLen

\* prevPageScroll that stays at the top of the document
prevPageScrollTop(i) == 0

\* prevPageScroll = currentPage * pageHeight
prevPageScroll(i) == currentPage(i) * pageHeight

\* zoom IN with a linear ease
ZoomInEaseLinear(i) == Frac(i, ZOOM_FRAMES)

\* ease of the zoom IN branch: p = f / ZOOM_FRAMES
ZoomInEase(i) == Ease(i, ZOOM_FRAMES)

\* ease of the scrolling branch: p = frameInPage / PAGE_SCROLL_FRAMES
ScrollEase(i) == Ease(frameInPage(i), PAGE_SCROLL_FRAMES)

\* ease of the zoom OUT branch: p = (f - zoomOutStart) / ZOOM_FRAMES
ZoomOutEase(i) == Ease(i - zoomOutStart, ZOOM_FRAMES)

\* scrollY = Math.min(maxScroll, prevPageScroll + pageHeight) of the paused branch
PauseScroll(k) == FracMin(Whole(maxScroll), Whole(k * pageHeight + pageHeight))

FrameZoom(i) ==
    LET ph == FramePhase(i)
    IN  IF ph = "zoomIn"
        THEN FracAdd(Whole(1), FracMul(FracSub(zoomScale, Whole(1)), ZoomInEase(i)))
        ELSE IF ph \in {"hold", "scroll", "pause"} THEN zoomScale
        ELSE IF ph = "zoomOut"
        THEN FracSub(zoomScale, FracMul(FracSub(zoomScale, Whole(1)), ZoomOutEase(i)))
        ELSE Whole(1)

\* scrollY that falls back to 0 while zooming out
FrameScrollYDropped(i) ==
    LET ph == FramePhase(i)
    IN  IF ph = "scroll"
        THEN FracMin(Whole(maxScroll),
                     FracAdd(Whole(prevPageScroll(i)),
                             FracMul(Whole(pageHeight), ScrollEase(i))))
        ELSE IF ph = "pause" THEN PauseScroll(currentPage(i))
        ELSE Whole(0)

FrameScrollY(i) ==
    LET ph == FramePhase(i)
    IN  IF ph = "scroll"
        THEN FracMin(Whole(maxScroll),
                     FracAdd(Whole(prevPageScroll(i)),
                             FracMul(Whole(pageHeight), ScrollEase(i))))
        ELSE IF ph = "pause" THEN PauseScroll(currentPage(i))
        ELSE IF ph = "zoomOut" THEN Whole(maxScroll)
        ELSE Whole(0)

\* a culling test that wants the baseline a full line below the top of the band
LineDrawnTight(i, sy) ==
    LET y == FracSub(Whole(contentTop + LH + i * LH), sy)
    IN  /\ FracLess(Whole(contentTop + LH), y)
        /\ FracLess(y, Whole(contentTop + visH + LH))

\* the culling test of the text loop for line i (from 0) at scroll offset sy:
\* y = contentTop + LH - scrollY + i * LH,
\* `y > contentTop - LH && y < contentTop + visH + LH`
LineDrawn(i, sy) ==
    LET y == FracSub(Whole(contentTop + LH + i * LH), sy)
    IN  /\ FracLess(Whole(contentTop - LH), y)
        /\ FracLess(y, Whole(contentTop + visH + LH))

\* barProgress whose pause test is off by one frame
FrameBarLate(i) ==
    IF i >= ZOOM_FRAMES /\ i < scrollStart
    THEN Frac(i - ZOOM_FRAMES, HOLD_AFTER_ZOOM)
    ELSE IF i >= scrollStart /\ i < scrollEnd
              /\ frameInPage(i) > PAGE_SCROLL_FRAMES
    THEN Frac(frameInPage(i) - PAGE_SCROLL_FRAMES, PAGE_PAUSE_FRAMES)
    ELSE Whole(-1)

\* barProgress: -1 unless one of the two branches assigns it
FrameBar(i) ==
    IF i >= ZOOM_FRAMES /\ i < scrollStart
    THEN Frac(i - ZOOM_FRAMES, HOLD_AFTER_ZOOM)
    ELSE IF i >= scrollStart /\ i < scrollEnd
              /\ frameInPage(i) >= PAGE_SCROLL_FRAMES
    THEN Frac(frameInPage(i) - PAGE_SCROLL_FRAMES, PAGE_PAUSE_FRAMES)
    ELSE Whole(-1)

\* `if (barProgress >= 0)`: the bar is drawn
BarDrawn(bar) == bar.num >= 0

----------------------------------------------------------------------------
(* parseArgs *)

\* numbers are kept in halves: pageWait2 is pageWait * 2
DEFAULTS ==
    [size |-> "md", aspect |-> "landscape", padding |-> "md", fps |-> 30,
     pageWait2 |-> 12, overlap |-> 4, speed |-> 8, quality |-> 28, cols |-> 80]

\* raw value of a flag: not given, given with a text that Number() does not
\* turn into a finite number, or given as the number v2 / 2
Absent == [k |-> "absent", v2 |-> 0]
NotANumber == [k |-> "text", v2 |-> 0]
Num2(n) == [k |-> "num", v2 |-> n]

\* parseNumber(raw, fallback), result and fallback in halves
parseNumber(raw, fallback2) ==
    IF raw.k = "absent" THEN fallback2
    ELSE IF raw.k = "num" THEN raw.v2
    ELSE fallback2

\* get(flag) || fallback, for the flags with a text value
GetOr(raw, fallback) == IF raw \in {"absent", ""} THEN fallback ELSE raw

\* assertChoice returns (TRUE) or throws (FALSE)
assertChoice(value, choices) == value \in choices

\* assertMin that accepts every value
assertMinNever(value2, min) == TRUE

\* assertMin returns (TRUE) or throws (FALSE); value in halves
assertMin(value2, min) == ~(value2 < 2 * min)

\* a help test that knows only the long flag
HelpAskedLong(a) == a.help = "--help"

\* `args.includes('-h') || args.includes('--help')`
HelpAsked(a) == a.help = "-h" \/ a.help = "--help"

\* the first assertion of parseArgs that throws, in the order of the code,
\* or "none"
ArgError(a) ==
    IF ~assertChoice(GetOr(a.size, DEFAULTS.size), {"sm", "md", "lg"}) THEN "size"
    ELSE IF ~assertChoice(GetOr(a.aspect, DEFAULTS.aspect),
                          {"square", "landscape", "portrait"}) THEN "aspect"
    ELSE IF ~assertChoice(GetOr(a.padding, DEFAULTS.padding), {"sm", "md", "lg"})
         THEN "padding"
    ELSE IF ~assertMin(parseNumber(a.fps, 2 * DEFAULTS.fps), 1) THEN "fps"
    ELSE IF ~assertMin(parseNumber(a.speed, 2 * DEFAULTS.speed), 0) THEN "speed"
    ELSE IF ~assertMin(parseNumber(a.quality, 2 * DEFAULTS.quality), 0) THEN "quality"
    ELSE IF ~assertMin(parseNumber(a.cols, 2 * DEFAULTS.cols), 1) THEN "cols"
    ELSE IF ~assertMin(parseNumber(a.pageWait, DEFAULTS.pageWait2), 0) THEN "page-wait"
    ELSE IF ~assertMin(parseNumber(a.overlap, 2 * DEFAULTS.overlap), 0) THEN "overlap"
    ELSE "none"

----------------------------------------------------------------------------
(* Frame files and the scratch directory *)

DigitChar(d) ==
    CASE d = 0 -> "0" [] d = 1 -> "1" [] d = 2 -> "2" [] d = 3 -> "3"
      [] d = 4 -> "4" [] d = 5 -> "5" [] d = 6 -> "6" [] d = 7 -> "7"
      [] d = 8 -> "8" [] d = 9 -> "9"

\* String(n) for n >= 0
RECURSIVE ToDigits(_)
ToDigits(n) ==
    IF n < 10 THEN <<DigitChar(n)>>
    ELSE ToDigits(n \div 10) \o <<DigitChar(n % 10)>>

\* str.padStart(n, c)
PadStart(str, n, c) ==
    IF Len(str) >= n THEN str ELSE [i \in 1..(n - Len(str)) |-> c] \o str

\* the frame name without padding
FrameFileUnpadded(i) == <<"f">> \o ToDigits(i) \o <<".png">>

\* `f${String(f).padStart(5, '0')}.png`
FrameFile(i) == <<"f">> \o PadStart(ToDigits(i), 5, "0") \o <<".png">>

\* a cleanup that runs only when nothing was thrown
TmpAfterNoFinally(thrown) == IF thrown THEN "present" ELSE "removed"

\* the scratch directory after `finally { rmSync(tmp, ...) }`
TmpAfter(thrown) == "removed"

----------------------------------------------------------------------------
(* The run *)

NoPhase == "none"

\* characters and whole escape sequences a rendered document is assembled from
Pieces ==
    { <<"a">>, <<ESC>>, <<"[">>, <<"m">>, <<";">>, <<"0">>, <<"1">>, <<NL>>,
      <<ESC, "[", "m">>,
      <<ESC, "[", "0", "m">>,
      <<ESC, "[", "1", "m">>,
      <<ESC, "[", "2", "2", "m">>,
      <<ESC, "[", "3", "1", "m">>,
      <<ESC, "[", "9", "9", "m">>,
      <<ESC, "[", "4", ";", "0", "m">>,
      <<ESC, "[", "2", ";", "3", "m">>,
      <<ESC, "[", "2", "3", ";", "2", "4", ";", "3", "9", "m">>,
      <<ESC, "[", "9", "4", "m">> }

RECURSIVE Flatten(_)
Flatten(ps) == IF ps = <<>> THEN <<>> ELSE Head(ps) \o Flatten(Tail(ps))

Documents ==
    { Flatten(ps) : ps \in UNION { [1..n -> Pieces] : n \in 0..MaxPieces } }

\* a document of n lines without text
BlankDocument(n) == [i \in 1..(n - 1) |-> NL]

\* the command line that sets exactly the options held by the variables
OptionArgs ==
    [script |-> "video.ts", help |-> "none", video |-> FALSE, file |-> TRUE,
     size |-> size, aspect |-> aspect, padding |-> padding,
     fps |-> Num2(2 * fps), speed |-> Absent, quality |-> Absent, cols |-> Absent,
     pageWait |-> Num2(pageWait2), overlap |-> Num2(2 * overlap)]

DefaultRest ==
    [cols2 |-> 2 * DEFAULTS.cols, quality2 |-> 2 * DEFAULTS.quality,
     speed2 |-> 2 * DEFAULTS.speed]

\* nothing has been read, called, created, written or printed
NoEffect ==
    /\ exit = -1
    /\ out = "none"
    /\ err = "none"
    /\ fileRead = FALSE
    /\ rendererCalls = 0
    /\ tmp = "absent"
    /\ files = 0
    /\ lastFile = <<>>
    /\ encoderCalls = 0

NoFrame ==
    /\ f = 0
    /\ zoom = Whole(1)
    /\ scrollY = Whole(0)
    /\ barProgress = Whole(-1)
    /\ phase = NoPhase
    /\ page = 0
    /\ drawnLines = {}
    /\ inPhase = 0

\* a run over an arbitrary rendered document, with the default options
InitParse ==
    /\ pc = "render"
    /\ rendered \in Documents
    /\ lines = <<>>
    /\ size = DEFAULTS.size
    /\ aspect = DEFAULTS.aspect
    /\ padding = DEFAULTS.padding
    /\ fps = DEFAULTS.fps
    /\ pageWait2 = DEFAULTS.pageWait2
    /\ overlap = DEFAULTS.overlap
    /\ contentW = MinContentW
    /\ NoFrame
    /\ entry = "video"
    /\ args = OptionArgs
    /\ rest = DefaultRest
    /\ NoEffect

\* a run over a document of blank lines, with arbitrary options
InitFrames ==
    /\ pc = "render"
    /\ rendered \in { BlankDocument(n) : n \in 1..MaxLines }
    /\ lines = <<>>
    /\ size \in Sizes
    /\ aspect \in Aspects
    /\ padding \in DOMAIN PADDINGS
    /\ fps \in 1..MaxFps
    /\ pageWait2 \in 0..MaxPageWait2
    /\ overlap \in {0, DEFAULTS.overlap, MaxOverlap}
    /\ contentW \in {MinContentW, MaxContentW}
    /\ NoFrame
    /\ entry = "video"
    /\ args = OptionArgs
    /\ rest = DefaultRest
    /\ NoEffect

\* the raw values tried for the flags
ChoiceRaws == {"", "sm", "md", "lg", "square", "landscape", "portrait", "xx"}
FpsRaws == {NotANumber, Num2(0), Num2(1), Num2(2), Num2(4)}
ColsRaws == {NotANumber, Num2(0), Num2(1), Num2(2), Num2(5)}
MinZeroRaws == {NotANumber, Num2(-1), Num2(0), Num2(2)}

NoFlags ==
    [script |-> "video.ts", help |-> "none", video |-> FALSE, file |-> FALSE,
     size |-> "absent", aspect |-> "absent", padding |-> "absent",
     fps |-> Absent, speed |-> Absent, quality |-> Absent, cols |-> Absent,
     pageWait |-> Absent, overlap |-> Absent]

\* the command lines with one more flag than those of the set A
OneMoreFlag(A) ==
    UNION { {[a EXCEPT !.size = v] : v \in ChoiceRaws}
            \cup {[a EXCEPT !.aspect = v] : v \in ChoiceRaws}
            \cup {[a EXCEPT !.padding = v] : v \in ChoiceRaws}
            \cup {[a EXCEPT !.fps = v] : v \in FpsRaws}
            \cup {[a EXCEPT !.cols = v] : v \in ColsRaws}
            \cup {[a EXCEPT !.speed = v] : v \in MinZeroRaws}
            \cup {[a EXCEPT !.quality = v] : v \in MinZeroRaws}
            \cup {[a EXCEPT !.pageWait = v] : v \in MinZeroRaws}
            \cup {[a EXCEPT !.overlap = v] : v \in MinZeroRaws}
          : a \in A }

\* the command lines with at most n option flags
RECURSIVE WithFlags(_)
WithFlags(n) ==
    IF n = 0 THEN {NoFlags} ELSE WithFlags(n - 1) \cup OneMoreFlag(WithFlags(n - 1))

\* `args.find((a) => !a.startsWith('-'))` also sees the values of the flags:
\* the value of a flag that is a word or a number from 0 on is found as the
\* file, unless an empty value stands before it
FindsValue(a) ==
    /\ \A v \in {a.size, a.aspect, a.padding} : v # ""
    /\ \/ \E v \in {a.size, a.aspect, a.padding} : v # "absent"
       \/ \E v \in {a.fps, a.speed, a.quality, a.cols, a.pageWait, a.overlap} :
              v.k = "num" /\ v.v2 >= 0

\* file: whether `args.find(...)` is a non-empty string
CommandLines ==
    { c \in { [a EXCEPT !.script = sc, !.help = h, !.video = v, !.file = g] :
                 a \in WithFlags(MaxFlags), sc \in {"index.ts", "video.ts"},
                 h \in {"none", "-h", "--help"}, v \in BOOLEAN, g \in BOOLEAN } :
        FindsValue(c) => c.file }

\* a run of either script over an arbitrary command line
InitRun ==
    /\ entry \in {"md", "video"}
    /\ args \in CommandLines
    /\ args.script = IF entry = "md" THEN "index.ts" ELSE "video.ts"
    /\ pc = IF entry = "md" THEN "index" ELSE "args"
    /\ rendered = BlankDocument(1)
    /\ lines = <<>>
    /\ size = DEFAULTS.size
    /\ aspect = DEFAULTS.aspect
    /\ padding = DEFAULTS.padding
    /\ fps = DEFAULTS.fps
    /\ pageWait2 = DEFAULTS.pageWait2
    /\ overlap = DEFAULTS.overlap
    /\ contentW = MinContentW
    /\ rest = DefaultRest
    /\ NoFrame
    /\ NoEffect

\* index.ts: help, dispatch to video.ts, or the plain rendering to the terminal
IndexMain ==
    /\ pc = "index"
    /\ entry = "md"
    /\ IF HelpAsked(args)
       THEN /\ out' = "usage" /\ exit' = 0 /\ err' = err /\ pc' = "exited"
            /\ UNCHANGED <<args, fileRead, rendererCalls>>
       ELSE IF args.video
       THEN /\ args' = [args EXCEPT !.script = "video.ts", !.video = FALSE]
            /\ pc' = "args"
            /\ UNCHANGED <<exitVars, fileRead, rendererCalls>>
       ELSE IF ~args.file
       THEN /\ out' = "usage" /\ exit' = 1 /\ err' = err /\ pc' = "exited"
            /\ UNCHANGED <<args, fileRead, rendererCalls>>
       ELSE \E readable \in BOOLEAN :
                IF readable
                THEN /\ fileRead' = TRUE /\ rendererCalls' = rendererCalls + 1
                     /\ out' = "markdown" /\ exit' = 0 /\ err' = err
                     /\ pc' = "exited" /\ args' = args
                ELSE /\ err' = "read" /\ exit' = 1 /\ out' = out
                     /\ pc' = "failed"
                     /\ UNCHANGED <<args, fileRead, rendererCalls>>
    /\ UNCHANGED <<entry, parseVars, optionVars, rest, frameVars, fileVars,
                   encoderCalls>>

\* video.ts: parseArgs and the check of o.file at the start of main
VideoMain ==
    /\ pc = "args"
    /\ IF HelpAsked(args)
       THEN /\ out' = "usage" /\ exit' = 0 /\ err' = err /\ pc' = "exited"
            /\ UNCHANGED <<optionVars, rest>>
       ELSE IF ArgError(args) # "none"
       THEN /\ err' = ArgError(args) /\ exit' = 1 /\ out' = out /\ pc' = "failed"
            /\ UNCHANGED <<optionVars, rest>>
       ELSE IF ~args.file
       THEN /\ out' = "usage" /\ exit' = 1 /\ err' = err /\ pc' = "exited"
            /\ UNCHANGED <<optionVars, rest>>
       ELSE /\ size' = GetOr(args.size, DEFAULTS.size)
            /\ aspect' = GetOr(args.aspect, DEFAULTS.aspect)
            /\ padding' = GetOr(args.padding, DEFAULTS.padding)
            /\ fps' = parseNumber(args.fps, 2 * DEFAULTS.fps) \div 2
            /\ pageWait2' = parseNumber(args.pageWait, DEFAULTS.pageWait2)
            /\ overlap' = parseNumber(args.overlap, 2 * DEFAULTS.overlap) \div 2
            /\ rest' = [cols2 |-> parseNumber(args.cols, 2 * DEFAULTS.cols),
                        quality2 |-> parseNumber(args.quality, 2 * DEFAULTS.quality),
                        speed2 |-> parseNumber(args.speed, 2 * DEFAULTS.speed)]
            /\ contentW' = contentW
            /\ pc' = "render"
            /\ UNCHANGED exitVars
    /\ UNCHANGED <<argVars, parseVars, frameVars, fileRead, rendererCalls,
                   fileVars, encoderCalls>>

\* renderMarkdown succeeds; const lines = rendered.split('\n').map(parseAnsi)
ParseDocument ==
    /\ pc = "render"
    /\ fileRead' = TRUE
    /\ rendererCalls' = rendererCalls + 1
    /\ lines' = ParseLines(rendered)
    /\ pc' = "layout"
    /\ UNCHANGED <<rendered, optionVars, frameVars, argVars, rest, exitVars,
                   fileVars, encoderCalls>>

\* renderMarkdown throws: the file cannot be read, bun cannot be started, or
\* bun exits with a status other than 0
RenderFails ==
    /\ pc = "render"
    /\ \E kind \in {"read", "render-spawn", "render-status"} :
          /\ err' = kind
          /\ fileRead' = (kind # "read")
          /\ rendererCalls' = IF kind = "read" THEN rendererCalls
                               ELSE rendererCalls + 1
    /\ exit' = 1
    /\ pc' = "failed"
    /\ UNCHANGED <<parseVars, optionVars, frameVars, argVars, rest, out,
                   fileVars, encoderCalls>>

\* the constants of main up to mkdirSync; the loop starts at f = 0
StartLoop ==
    /\ pc = "layout"
    /\ pc' = "loop"
    /\ tmp' = "present"
    /\ f' = 0
    /\ UNCHANGED <<parseVars, optionVars, zoom, scrollY, barProgress, phase,
                   page, drawnLines, inPhase, argVars, rest, exitVars, fileRead,
                   rendererCalls, files, lastFile, encoderCalls>>

\* one iteration of `for (let f = 0; f < total; f++)`
RenderFrame ==
    /\ pc = "loop"
    /\ f < total
    /\ zoom' = FrameZoom(f)
    /\ scrollY' = FrameScrollY(f)
    /\ barProgress' = FrameBar(f)
    /\ phase' = FramePhase(f)
    /\ page' = currentPage(f)
    /\ drawnLines' = LET sy == FrameScrollY(f)
                     IN  {i \in 0..(Len(lines) - 1) : LineDrawn(i, sy)}
    /\ inPhase' = IF FramePhase(f) = phase /\ currentPage(f) = page
                  THEN inPhase + 1 ELSE 0
    /\ files' = files + 1
    /\ lastFile' = FrameFile(f)
    /\ f' = f + 1
    /\ UNCHANGED <<pc, parseVars, optionVars, argVars, rest, exitVars, fileRead,
                   rendererCalls, tmp, encoderCalls>>

\* drawing or writing the frame throws: finally, then main().catch
WriteFails ==
    /\ pc = "loop"
    /\ f < total
    /\ tmp' = TmpAfter(TRUE)
    /\ err' = "frame-write"
    /\ exit' = 1
    /\ pc' = "failed"
    /\ UNCHANGED <<parseVars, optionVars, frameVars, argVars, rest, out, fileRead,
                   rendererCalls, files, lastFile, encoderCalls>>

\* the loop ends; ffmpeg encodes the frames; finally
Encode ==
    /\ pc = "loop"
    /\ f >= total
    /\ encoderCalls' = encoderCalls + 1
    /\ tmp' = TmpAfter(FALSE)
    /\ exit' = 0
    /\ pc' = "done"
    /\ UNCHANGED <<parseVars, optionVars, frameVars, argVars, rest, out, err,
                   fileRead, rendererCalls, files, lastFile>>

\* the loop ends; ffmpeg cannot be started or exits with a status other than
\* 0; finally, then main().catch
EncodeFails ==
    /\ pc = "loop"
    /\ f >= total
    /\ encoderCalls' = encoderCalls + 1
    /\ \E kind \in {"ffmpeg-spawn", "ffmpeg-status"} : err' = kind
    /\ tmp' = TmpAfter(TRUE)
    /\ exit' = 1
    /\ pc' = "failed"
    /\ UNCHANGED <<parseVars, optionVars, frameVars, argVars, rest, out,
                   fileRead, rendererCalls, files, lastFile>>

NextParse == ParseDocument

NextRun ==
    \/ IndexMain
    \/ VideoMain
    \/ ParseDocument
    \/ RenderFails
    \/ StartLoop
    \/ RenderFrame
    \/ WriteFails
    \/ Encode
    \/ EncodeFails

Next ==
    \/ ParseDocument
    \/ StartLoop
    \/ RenderFrame
    \/ Encode

SpecParse == InitParse /\ [][NextParse]_vars

Spec == InitFrames /\ [][Next]_vars

SpecRun == InitRun /\ [][NextRun]_vars

----------------------------------------------------------------------------
(* Properties of the layout, the timeline and the frame loop *)

Planned == pc \in {"layout", "loop", "done"}
Drawn == pc \in {"loop", "done"} /\ f > 0

\* C1: with maxScroll > 0 there is at least one page; the pause targets
\* min(maxScroll, (k+1) * pageHeight), k = 0..numPages-1, are strictly
\* increasing, none exceeds maxScroll, the last one is maxScroll, and a frame
\* paused on page k is scrolled to target k.
C1_PageTargets ==
    LET target(k) == IF (k + 1) * pageHeight < maxScroll
                     THEN (k + 1) * pageHeight ELSE maxScroll
    IN  /\ Planned /\ maxScroll > 0 =>
              /\ numPages >= 1
              /\ numPages * pageHeight >= maxScroll
              /\ (numPages - 1) * pageHeight < maxScroll
              /\ \A k \in 0..(numPages - 1) :
                    /\ target(k) <= maxScroll
                    /\ k > 0 => target(k - 1) < target(k)
              /\ target(numPages - 1) = maxScroll
        /\ Drawn /\ phase = "pause" =>
              /\ page \in 0..(numPages - 1)
              /\ FracEq(scrollY, Whole(target(page)))

\* a frame paused on the last of several pages, whose target was clamped
C1_Witness ==
    /\ Drawn /\ phase = "pause"
    /\ numPages >= 2 /\ page = numPages - 1
    /\ numPages * pageHeight > maxScroll
    /\ FracEq(scrollY, Whole(maxScroll))

\* C2 as stated: maxScroll >= 0, and a document no taller than the visible
\* band has maxScroll = 0, hasScroll false and no scroll frames.
C2_Original ==
    Planned =>
        /\ maxScroll >= 0
        /\ Len(lines) * LH <= visH =>
              maxScroll = 0 /\ ~hasScroll /\ scrollFrames = 0

\* C2 amended: maxScroll >= 0, and maxScroll = 0, hasScroll false and no
\* scroll frame exactly when the document plus the bottom padding WPAD is no
\* taller than the visible band; otherwise maxScroll is the excess.
C2_ScrollBound ==
    /\ Planned =>
          /\ maxScroll >= 0
          /\ Len(lines) * LH + WPAD <= visH =>
                maxScroll = 0 /\ ~hasScroll /\ scrollFrames = 0 /\ numPages = 0
          /\ Len(lines) * LH + WPAD > visH =>
                maxScroll = Len(lines) * LH + WPAD - visH /\ hasScroll
    /\ Drawn /\ Len(lines) * LH + WPAD <= visH =>
          phase \in {"zoomIn", "hold", "finalHold"} /\ FracEq(scrollY, Whole(0))

\* a finished run over a document that fits the band with its bottom padding
C2_Witness ==
    /\ pc = "done" /\ f = total /\ f > 0
    /\ Len(lines) > 1
    /\ Len(lines) * LH + WPAD + LH > visH
    /\ Len(lines) * LH + WPAD <= visH
    /\ ~hasScroll

\* C3: total is the sum of the phase durations, and the frames are assigned
\* to zoom-in, hold, page 1 scroll, page 1 pause, ..., zoom-out or final
\* hold in this order, each phase getting exactly its duration.
C3_FrameCount ==
    LET Z == Round(fps * 6, 10)
        P == Round(fps * pageWait2, 2)
        S == Round(fps * 8, 10)
        N == IF hasScroll THEN numPages ELSE 0
        Last == IF hasScroll THEN Z ELSE Round(fps * 3, 10)
        Start == CASE phase = "zoomIn" -> 0
                   [] phase = "hold" -> Z
                   [] phase = "scroll" -> Z + P + page * (S + P)
                   [] phase = "pause" -> Z + P + page * (S + P) + S
                   [] OTHER -> Z + P + N * (S + P)
        Dur == CASE phase = "zoomIn" -> Z
                 [] phase = "hold" -> P
                 [] phase = "scroll" -> S
                 [] phase = "pause" -> P
                 [] OTHER -> Last
    IN  /\ Planned => total = Z + P + N * (S + P) + Last
        /\ Planned /\ ~hasScroll => numPages = 0
        /\ Drawn =>
              /\ phase \in {"zoomIn", "hold", "scroll", "pause", "zoomOut", "finalHold"}
              /\ phase \in {"scroll", "pause"} => page \in 0..(N - 1)
              /\ phase = "zoomOut" => hasScroll
              /\ phase = "finalHold" => ~hasScroll
              /\ f - 1 = Start + inPhase
              /\ inPhase < Dur
              /\ f <= total
        /\ pc = "done" => f = total

\* a finished run with several pages, pauses and a zoom-out
C3_Witness ==
    /\ pc = "done" /\ f = total
    /\ hasScroll /\ numPages >= 2 /\ PAGE_PAUSE_FRAMES >= 2
    /\ phase = "zoomOut" /\ inPhase = ZOOM_FRAMES - 1

\* C4: the progress bar is drawn exactly on the frames of the hold phase and
\* of the pause sub-phases; its fraction is the number of frames already spent
\* in that hold or pause over its duration, which lies in [0, 1).
C4_ProgressBar ==
    Drawn =>
        /\ BarDrawn(barProgress) <=> phase \in {"hold", "pause"}
        /\ phase \in {"zoomIn", "scroll", "zoomOut", "finalHold"} =>
              barProgress = Whole(-1)
        /\ phase \in {"hold", "pause"} =>
              /\ barProgress.den = Round(fps * pageWait2, 2)
              /\ barProgress.num = inPhase
              /\ 0 <= barProgress.num /\ barProgress.num < barProgress.den

\* a frame in the middle of a page pause, with the bar part filled
C4_Witness ==
    /\ Drawn /\ phase = "pause" /\ page >= 1
    /\ BarDrawn(barProgress) /\ barProgress.num >= 1

\* C5 as stated: zoom is 1 at frame 0 and targetZoom at the last frame of
\* the zoom-in phase.
C5_Original ==
    Drawn /\ phase = "zoomIn" =>
        /\ f - 1 = 0 => FracEq(zoom, Whole(1))
        /\ f - 1 = Round(fps * 6, 10) - 1 => FracEq(zoom, Frac(W, winW))

\* C5 amended: zoom is 1 at frame 0; at the last frame of the zoom-in phase
\* it is 1 + (targetZoom - 1) * (1 - 1 / zoomInFrames^3), which is targetZoom
\* only when targetZoom = 1; targetZoom itself is the zoom of frame
\* zoomInFrames when that frame belongs to the hold or the scroll phase.
C5_ZoomIn ==
    LET Z == Round(fps * 6, 10)
        Z3 == Z * Z * Z
    IN  /\ Drawn /\ phase = "zoomIn" =>
              /\ f - 1 = 0 => zoom.num = zoom.den
              /\ f - 1 = Z - 1 =>
                    /\ FracEq(zoom, Frac(winW * Z3 + (W - winW) * (Z3 - 1), winW * Z3))
                    /\ FracEq(zoom, Frac(W, winW)) <=> W = winW
        /\ Drawn /\ f - 1 = Z /\ phase \in {"hold", "scroll"} =>
              FracEq(zoom, Frac(W, winW))

\* the last of several zoom-in frames, short of a target zoom other than 1
C5_Witness ==
    /\ Drawn /\ phase = "zoomIn"
    /\ ZOOM_FRAMES >= 2 /\ f = ZOOM_FRAMES
    /\ W # winW
    /\ ~FracEq(zoom, Frac(W, winW))
    /\ ~FracEq(zoom, Whole(1))

----------------------------------------------------------------------------
(* Properties of parseAnsi *)

Parsed == pc = "layout"

\* the lines handed to parseAnsi
SourceLines == SplitOn(rendered, NL)

\* the codes of the transition table
TableCodes == {0, 1, 2, 3, 4, 22, 23, 24, 39} \cup (30..37) \cup (90..97)

\* position of the m that closes an escape sequence ESC [ <digits and
\* semicolons> m beginning at position i of t, or 0 when none begins there
EscClose(t, i) ==
    IF /\ i + 2 <= Len(t)
       /\ t[i] = ESC
       /\ t[i + 1] = "["
       /\ \E k \in (i + 2)..Len(t) :
             t[k] = "m" /\ \A j \in (i + 2)..(k - 1) : t[j] \in Digits \cup {";"}
    THEN CHOOSE k \in (i + 2)..Len(t) :
             t[k] = "m" /\ \A j \in (i + 2)..(k - 1) : t[j] \in Digits \cup {";"}
    ELSE 0

\* starts of the escape sequences of t met reading left to right from i
RECURSIVE EscapeStarts(_, _)
EscapeStarts(t, i) ==
    IF i > Len(t) THEN {}
    ELSE IF EscClose(t, i) # 0 THEN {i} \cup EscapeStarts(t, EscClose(t, i) + 1)
    ELSE EscapeStarts(t, i + 1)

\* t from position i on, with its escape sequences removed
RECURSIVE StripFrom(_, _)
StripFrom(t, i) ==
    IF i > Len(t) THEN <<>>
    ELSE IF EscClose(t, i) # 0 THEN StripFrom(t, EscClose(t, i) + 1)
    ELSE <<t[i]>> \o StripFrom(t, i + 1)

\* positions of t outside every escape sequence
VisiblePositions(t) ==
    {p \in 1..Len(t) : \A a \in EscapeStarts(t, 1) : p < a \/ p > EscClose(t, a)}

\* rank of the visible position p among the visible positions of t
VisIndex(t, p) == Cardinality({q \in VisiblePositions(t) : q <= p})

\* start of the nearest escape sequence before position p, or 0
PrecedingEscape(t, p) ==
    LET before == {a \in EscapeStarts(t, 1) : a < p}
    IN  IF before = {} THEN 0
        ELSE CHOOSE a \in before : \A b \in before : b <= a

\* the parameter characters of the escape sequence that starts at a
Params(t, a) == SubSeq(t, a + 2, EscClose(t, a) - 1)

\* the last number of a parameter list is written with zeros only
LastCodeIsZero(ps) ==
    \E lo \in 1..Len(ps) : \E hi \in lo..Len(ps) :
        /\ \A j \in lo..hi : ps[j] = "0"
        /\ lo = 1 \/ ps[lo - 1] = ";"
        /\ \A j \in (hi + 1)..Len(ps) : ps[j] = ";"

\* the texts of the spans, concatenated
RECURSIVE SpanText(_)
SpanText(spans) ==
    IF spans = <<>> THEN <<>> ELSE Head(spans).text \o SpanText(Tail(spans))

\* the style of every character of the spans, in order
RECURSIVE CharStyles(_)
CharStyles(spans) ==
    IF spans = <<>> THEN <<>>
    ELSE [j \in 1..Len(Head(spans).text) |-> Head(spans).style]
             \o CharStyles(Tail(spans))

\* t without the positions lo..hi
Without(t, lo, hi) == SubSeq(t, 1, lo - 1) \o SubSeq(t, hi + 1, Len(t))

\* C6: for every line, the texts of the spans concatenated in order are the
\* line with its escape sequences removed.
C6_RoundTrip ==
    Parsed =>
        /\ Len(lines) = Len(SourceLines)
        /\ \A i \in 1..Len(lines) :
              SpanText(lines[i]) = StripFrom(SourceLines[i], 1)

\* a parsed line with text before, between and after escape sequences
C6_Witness ==
    /\ Parsed
    /\ \E i \in 1..Len(lines) :
          /\ Len(lines[i]) >= 2
          /\ Cardinality(EscapeStarts(SourceLines[i], 1)) >= 1
          /\ Len(SpanText(lines[i])) < Len(SourceLines[i])
          /\ SpanText(lines[i]) = StripFrom(SourceLines[i], 1)

\* C7: a character whose nearest preceding escape sequence has 0 as its last
\* code is emitted with the empty style.
C7_ResetCompleteness ==
    Parsed =>
        \A i \in 1..Len(lines) :
            LET t == SourceLines[i]
            IN  \A p \in VisiblePositions(t) :
                    LET a == PrecedingEscape(t, p)
                    IN  a # 0 /\ LastCodeIsZero(Params(t, a)) =>
                            /\ VisIndex(t, p) <= Len(CharStyles(lines[i]))
                            /\ CharStyles(lines[i])[VisIndex(t, p)] = EmptyStyle

\* text after a reset that follows a sequence which had set a style
C7_Witness ==
    /\ Parsed
    /\ \E i \in 1..Len(lines) :
          LET t == SourceLines[i]
          IN  \E p \in VisiblePositions(t) :
                  LET a == PrecedingEscape(t, p)
                  IN  /\ a # 0
                      /\ LastCodeIsZero(Params(t, a))
                      /\ \E b \in EscapeStarts(t, 1) :
                            /\ b < a
                            /\ ApplyCodes(EmptyStyle, CodesOf(Params(t, b))) # EmptyStyle
                      /\ CharStyles(lines[i])[VisIndex(t, p)] = EmptyStyle

\* C8 as stated: a character whose nearest preceding escape sequence has an
\* empty parameter list is emitted with the empty style.
C8_Original ==
    Parsed =>
        \A i \in 1..Len(lines) :
            LET t == SourceLines[i]
            IN  \A p \in VisiblePositions(t) :
                    LET a == PrecedingEscape(t, p)
                    IN  a # 0 /\ Params(t, a) = <<>> =>
                            /\ VisIndex(t, p) <= Len(CharStyles(lines[i]))
                            /\ CharStyles(lines[i])[VisIndex(t, p)] = EmptyStyle

\* C9 as stated: a line without escape sequence gives exactly one span, with
\* the empty style.
C9_Original ==
    Parsed =>
        \A i \in 1..Len(lines) :
            EscapeStarts(SourceLines[i], 1) = {} =>
                /\ Len(lines[i]) = 1
                /\ lines[i][1].style = EmptyStyle

\* C9 amended: a line without escape sequence that is not empty gives exactly
\* one span, the whole line with the empty style; the empty line gives no span.
C9_PlainLine ==
    Parsed =>
        \A i \in 1..Len(lines) :
            EscapeStarts(SourceLines[i], 1) = {} =>
                IF SourceLines[i] = <<>>
                THEN lines[i] = <<>>
                ELSE lines[i] = <<[text |-> SourceLines[i], style |-> EmptyStyle]>>

\* a document with an empty line and a line of characters that form no
\* escape sequence
C9_Witness ==
    /\ Parsed
    /\ \E i \in 1..Len(lines) : SourceLines[i] = <<>> /\ lines[i] = <<>>
    /\ \E i \in 1..Len(lines) :
          /\ Len(SourceLines[i]) >= 2
          /\ ESC \in {SourceLines[i][j] : j \in 1..Len(SourceLines[i])}
          /\ EscapeStarts(SourceLines[i], 1) = {}
          /\ Len(lines[i]) = 1

\* C10: an escape sequence all of whose codes are outside the transition
\* table changes no style: the line parses to the same character styles as
\* the line without that sequence, no text is lost, and no code outside the
\* table changes a style met in the document.
C10_UnknownCodes ==
    Parsed =>
        \A i \in 1..Len(lines) :
            LET t == SourceLines[i]
                styles == {EmptyStyle}
                             \cup {CharStyles(lines[i])[j] : j \in 1..Len(CharStyles(lines[i]))}
            IN  \A a \in EscapeStarts(t, 1) :
                    LET codes == CodesOf(Params(t, a))
                        unknown == {j \in 1..Len(codes) : codes[j] \notin TableCodes}
                        t2 == Without(t, a, EscClose(t, a))
                    IN  /\ \A j \in unknown : \A st \in styles :
                              ApplyCode(st, codes[j]) = st
                        /\ codes # <<>> /\ unknown = 1..Len(codes) =>
                              /\ SpanText(lines[i]) = StripFrom(t, 1)
                              /\ StripFrom(t2, 1) = StripFrom(t, 1) =>
                                    CharStyles(lines[i]) = CharStyles(parseAnsi(t2))

\* text that keeps a style other than the empty one across an unknown code
C10_Witness ==
    /\ Parsed
    /\ \E i \in 1..Len(lines) :
          LET t == SourceLines[i]
          IN  \E p \in VisiblePositions(t) :
                  LET a == PrecedingEscape(t, p)
                  IN  /\ a # 0
                      /\ CodesOf(Params(t, a)) # <<>>
                      /\ \A j \in 1..Len(CodesOf(Params(t, a))) :
                            CodesOf(Params(t, a))[j] \notin TableCodes
                      /\ CharStyles(lines[i])[VisIndex(t, p)] # EmptyStyle
                      /\ CharStyles(lines[i]) =
                            CharStyles(parseAnsi(Without(t, a, EscClose(t, a))))

----------------------------------------------------------------------------
(* Properties of the whole run *)

Ended == exit # -1

\* C11: a run that has ended has no scratch directory left: it was never
\* created, or it was removed, whether the run completed, a frame could not be
\* written (with or without frames written before), or ffmpeg failed.
C11_ScratchReleased ==
    /\ Ended => tmp # "present"
    /\ tmp = "present" => pc = "loop" /\ ~Ended
    /\ Ended /\ (files > 0 \/ encoderCalls > 0
                 \/ err \in {"frame-write", "ffmpeg-spawn", "ffmpeg-status"}) =>
          tmp = "removed"

\* a run ended by the failure of the very first frame
C11_Witness ==
    /\ Ended /\ exit = 1
    /\ err = "frame-write"
    /\ files = 0
    /\ tmp = "removed"

\* the name the frame of index i must get: f, five decimal digits, .png
PaddedName(i) ==
    <<"f", DigitChar((i \div 10000) % 10), DigitChar((i \div 1000) % 10),
      DigitChar((i \div 100) % 10), DigitChar((i \div 10) % 10),
      DigitChar(i % 10), ".png">>

\* rank of a character of a file name in the order of the character codes
CharRank(c) == IF c \in Digits THEN 1 + DigitValue(c) ELSE IF c = "f" THEN 11 ELSE 0

\* a sorts before b, character by character
RECURSIVE NameBefore(_, _)
NameBefore(a, b) ==
    IF b = <<>> THEN FALSE
    ELSE IF a = <<>> THEN TRUE
    ELSE IF Head(a) = Head(b) THEN NameBefore(Tail(a), Tail(b))
    ELSE CharRank(Head(a)) < CharRank(Head(b))

\* C12: ffmpeg is called at most once, and only when the frames 0..total-1
\* have all been written; every write adds the frame of the next index under
\* its zero-padded name, which sorts after the name before it; a renderer
\* failure ends the run without frame and without ffmpeg call, and so does a
\* failed frame write as to ffmpeg.
C12_EncoderAfterFrames ==
    /\ [](/\ encoderCalls <= 1
          /\ encoderCalls = 1 =>
                /\ files = total /\ f = total /\ total >= 1
                /\ lastFile = PaddedName(total - 1)
          /\ err \in {"read", "render-spawn", "render-status"} =>
                files = 0 /\ encoderCalls = 0 /\ tmp = "absent" /\ Ended
          /\ err = "frame-write" => encoderCalls = 0 /\ Ended /\ files < total)
    /\ [][/\ files' # files =>
                /\ files' = files + 1
                /\ encoderCalls = 0
                /\ lastFile' = PaddedName(files)
                /\ lastFile # <<>> => NameBefore(lastFile, lastFile')
          /\ encoderCalls' # encoderCalls => files = total]_vars

\* a completed run: more than ten frames written, then one ffmpeg call
C12_Witness ==
    /\ pc = "done" /\ exit = 0
    /\ encoderCalls = 1
    /\ files = total /\ files > 10
    /\ lastFile = PaddedName(total - 1)

\* the option flags, as raw values, that C13 calls out of range, unrecognized
\* or not a number
BadChoice(raw, choices) == raw # "absent" /\ raw \notin choices
BelowMin(raw, min) == raw.k = "num" /\ raw.v2 < 2 * min
NotNumeric(raw) == raw.k = "text"
NotWhole(raw) == raw.k = "num" /\ raw.v2 % 2 # 0

\* video.ts has gone past parseArgs
ArgsParsed == args.script = "video.ts" /\ pc # "args"

NothingRendered ==
    /\ ~fileRead
    /\ rendererCalls = 0
    /\ tmp = "absent"
    /\ files = 0
    /\ encoderCalls = 0

\* C13 as stated: every choice outside its three values, every number below
\* its minimum, every cols that is no positive integer and every numeric
\* option that is not a number ends the run with a nonzero exit before
\* anything is rendered.
C13_Original ==
    ArgsParsed /\ (\/ BadChoice(args.size, {"sm", "md", "lg"})
                   \/ BadChoice(args.aspect, {"square", "landscape", "portrait"})
                   \/ BadChoice(args.padding, {"sm", "md", "lg"})
                   \/ BelowMin(args.fps, 1) \/ NotNumeric(args.fps)
                   \/ BelowMin(args.cols, 1) \/ NotNumeric(args.cols)
                   \/ NotWhole(args.cols)
                   \/ BelowMin(args.quality, 0) \/ NotNumeric(args.quality)
                   \/ BelowMin(args.pageWait, 0) \/ NotNumeric(args.pageWait)
                   \/ BelowMin(args.overlap, 0) \/ NotNumeric(args.overlap)) =>
        Ended /\ exit # 0 /\ NothingRendered

\* the option values parseArgs rejects
OutOfRange(a) ==
    \/ BadChoice(a.size, {"", "sm", "md", "lg"})
    \/ BadChoice(a.aspect, {"", "square", "landscape", "portrait"})
    \/ BadChoice(a.padding, {"", "sm", "md", "lg"})
    \/ BelowMin(a.fps, 1)
    \/ BelowMin(a.cols, 1)
    \/ BelowMin(a.speed, 0)
    \/ BelowMin(a.quality, 0)
    \/ BelowMin(a.pageWait, 0)
    \/ BelowMin(a.overlap, 0)

OptionErrors ==
    {"size", "aspect", "padding", "fps", "speed", "quality", "cols", "page-wait",
     "overlap"}

\* C13 amended: without -h and --help, a non-empty size, aspect or padding
\* outside its three values, fps or cols below 1, and speed, quality,
\* page-wait or overlap below 0 end the run with exit 1 before anything is
\* rendered, and nothing else is an option error: a numeric option that is
\* not a number, an empty choice and a fractional cols of at least 1 are
\* accepted.
C13_Validation ==
    ArgsParsed /\ ~HelpAsked(args) =>
        /\ OutOfRange(args) <=> err \in OptionErrors
        /\ OutOfRange(args) => Ended /\ exit = 1 /\ NothingRendered
        /\ ~OutOfRange(args) /\ args.file /\ pc = "render" =>
              /\ size = (IF args.size \in {"absent", ""} THEN "md" ELSE args.size)
              /\ fps = (IF args.fps.k = "num" THEN args.fps.v2 \div 2 ELSE 30)
              /\ rest.cols2 = (IF args.cols.k = "num" THEN args.cols.v2 ELSE 160)

\* a run ended by an overlap below 0, the last option that is validated
C13_Witness ==
    /\ ArgsParsed /\ args.help = "none"
    /\ args.overlap = Num2(-1)
    /\ err = "overlap"
    /\ exit = 1
    /\ NothingRendered

\* C14: with -h or --help among the arguments, either script prints its
\* usage and exits with status 0 as its first step, without error, whatever
\* the other arguments, and reads, renders, creates and writes nothing.
C14_Help ==
    args.help \in {"-h", "--help"} /\ pc \notin {"index", "args"} =>
        /\ pc = "exited"
        /\ out = "usage"
        /\ exit = 0
        /\ err = "none"
        /\ NothingRendered
        /\ args.script = IF entry = "md" THEN "index.ts" ELSE "video.ts"

\* video.ts asked for help with -h next to an option that validation rejects
C14_Witness ==
    /\ entry = "video"
    /\ args.help = "-h"
    /\ OutOfRange(args)
    /\ pc = "exited" /\ exit = 0 /\ out = "usage"

----------------------------------------------------------------------------
(* Properties of the frames, continued *)

\* C15 as stated: on every frame of page k's scroll, at p = frameInPage /
\* PAGE_SCROLL_FRAMES, scrollY = prev + (target - prev) * (1 - (1 - p)^3) with
\* prev the offset held on the page before and target = min(maxScroll, prev +
\* pageHeight), on the last, clamped page too.
C15_Original ==
    LET Z == Round(fps * 6, 10)
        P == Round(fps * pageWait2, 2)
        S == Round(fps * 8, 10)
        n == ((f - 1) - (Z + P)) % (S + P)
        prev == IF page * pageHeight < maxScroll THEN page * pageHeight ELSE maxScroll
        target == IF prev + pageHeight < maxScroll THEN prev + pageHeight ELSE maxScroll
        ease == Frac(S * S * S - (S - n) * (S - n) * (S - n), S * S * S)
    IN  Drawn /\ phase = "scroll" =>
            FracEq(scrollY, FracAdd(Whole(prev), FracMul(Whole(target - prev), ease)))

----------------------------------------------------------------------------
(* Properties of parseAnsi, continued *)

\* what a style shows: the colour, and which attributes are on
Plain ==
    [fg |-> "none", bold |-> FALSE, dim |-> FALSE, italic |-> FALSE,
     underline |-> FALSE]

Shown(style) ==
    [fg |-> IF style.fg = "undefined" THEN "none" ELSE style.fg,
     bold |-> style.bold = "true", dim |-> style.dim = "true",
     italic |-> style.italic = "true", underline |-> style.underline = "true"]

\* the transition table of C16
Table(st, c) ==
    CASE c = 0 -> Plain
      [] c = 1 -> [st EXCEPT !.bold = TRUE]
      [] c = 2 -> [st EXCEPT !.dim = TRUE]
      [] c = 3 -> [st EXCEPT !.italic = TRUE]
      [] c = 4 -> [st EXCEPT !.underline = TRUE]
      [] c = 22 -> [st EXCEPT !.bold = FALSE, !.dim = FALSE]
      [] c = 23 -> [st EXCEPT !.italic = FALSE]
      [] c = 24 -> [st EXCEPT !.underline = FALSE]
      [] c = 39 -> [st EXCEPT !.fg = "none"]
      [] c \in (30..37) \cup (90..97) -> [st EXCEPT !.fg = ANSI[c]]
      [] OTHER -> st

\* the table folded over the numbers written in the parameters ps, read
\* character by character from position i; cur is the number being read and
\* any tells whether a digit of it has been read
RECURSIVE TableFold(_, _, _, _, _)
TableFold(st, ps, i, cur, any) ==
    IF i > Len(ps) THEN (IF any THEN Table(st, cur) ELSE st)
    ELSE IF ps[i] = ";"
    THEN TableFold(IF any THEN Table(st, cur) ELSE st, ps, i + 1, 0, FALSE)
    ELSE TableFold(st, ps, i + 1, 10 * cur + DigitValue(ps[i]), TRUE)

\* the table folded over the escape sequences of t that begin at i or later
\* and before position p
RECURSIVE StyleAt(_, _, _, _)
StyleAt(t, i, p, st) ==
    IF i >= p THEN st
    ELSE IF EscClose(t, i) # 0
    THEN StyleAt(t, EscClose(t, i) + 1, p, TableFold(st, Params(t, i), 1, 0, FALSE))
    ELSE StyleAt(t, i + 1, p, st)

\* C16: every character of every span of a line shows the style that the
\* transition table, folded from the empty style at the start of that line
\* over the codes of the escape sequences before the character, yields; so
\* text before a sequence keeps the style from before its codes and nothing
\* carries over from the line before.
C16_StyleFold ==
    Parsed =>
        \A i \in 1..Len(lines) :
            LET t == SourceLines[i]
            IN  /\ Len(CharStyles(lines[i])) = Cardinality(VisiblePositions(t))
                /\ \A p \in VisiblePositions(t) :
                      Shown(CharStyles(lines[i])[VisIndex(t, p)])
                          = StyleAt(t, 1, p, Plain)

\* a line with plain text, a sequence of two codes, and text that shows both
C16_Witness ==
    /\ Parsed
    /\ \E i \in 1..Len(lines) :
          /\ Len(lines[i]) = 2
          /\ Shown(lines[i][1].style) = Plain
          /\ Shown(lines[i][2].style) = [Plain EXCEPT !.dim = TRUE, !.italic = TRUE]
          /\ Cardinality(EscapeStarts(SourceLines[i], 1)) = 1

----------------------------------------------------------------------------
(* Properties of the frames: transform outside the eased motion *)

\* equality of two fractions through their lowest terms, for fractions whose
\* cross products are too large
RECURSIVE GCD(_, _)
GCD(a, b) == IF b = 0 THEN a ELSE GCD(b, a % b)

Lowest(x) ==
    LET g == GCD(x.num, x.den) IN Frac(x.num \div g, x.den \div g)

SameFrac(a, b) == Lowest(a) = Lowest(b)

\* C17: a hold frame has zoom = targetZoom = W / winW and scroll 0; a frame of
\* the paginated scroll phase has zoom = targetZoom; a zoom-out frame has
\* scroll = maxScroll, the first one has zoom = targetZoom, and the run ends
\* after as many zoom-out frames as zoom-in frames; without scroll the final
\* phase is round(fps * 0.3) frames at zoom 1 and scroll 0, and every frame
\* of the run has scroll 0.
C17_FixedTransform ==
    LET Z == Round(fps * 6, 10)
        R == Round(fps * 3, 10)
        targetZoom == Frac(W, winW)
    IN  Drawn =>
            /\ phase = "hold" => SameFrac(zoom, targetZoom) /\ scrollY.num = 0
            /\ phase \in {"scroll", "pause"} => hasScroll /\ SameFrac(zoom, targetZoom)
            /\ phase = "zoomOut" =>
                  /\ hasScroll
                  /\ FracEq(scrollY, Whole(maxScroll))
                  /\ inPhase = 0 => SameFrac(zoom, targetZoom)
                  /\ inPhase < Z
            /\ hasScroll /\ pc = "done" => phase = "zoomOut" /\ inPhase = Z - 1
            /\ ~hasScroll =>
                  /\ scrollY.num = 0
                  /\ phase \in {"zoomIn", "hold", "finalHold"}
                  /\ phase = "finalHold" => zoom.num = zoom.den /\ inPhase < R
                  /\ pc = "done" /\ R > 0 => phase = "finalHold" /\ inPhase = R - 1
                  /\ pc = "done" /\ R = 0 => phase # "finalHold"

\* a later zoom-out frame: scrolled to the end, zoom already off the target
C17_Witness ==
    /\ Drawn /\ phase = "zoomOut"
    /\ inPhase >= 1
    /\ maxScroll > 0 /\ FracEq(scrollY, Whole(maxScroll))
    /\ ~SameFrac(zoom, Frac(W, winW))

\* C18: from frame to frame scrollY never decreases; on every frame
\* 0 <= scrollY <= maxScroll; and the first scroll frame of page k is at
\* min(maxScroll, k * pageHeight), the offset held in the pause of page k - 1
\* (0 for the first page).
C18_ScrollMonotone ==
    /\ [](Drawn =>
             /\ ~FracLess(scrollY, Whole(0))
             /\ ~FracLess(Whole(maxScroll), scrollY)
             /\ phase = "scroll" /\ inPhase = 0 =>
                   FracEq(scrollY, Whole(IF page * pageHeight < maxScroll
                                         THEN page * pageHeight ELSE maxScroll)))
    /\ [][/\ f' = f + 1 => ~FracLess(scrollY', scrollY)
          /\ f' = f + 1 /\ phase = "pause" /\ phase' = "scroll" =>
                page' = page + 1 /\ FracEq(scrollY', scrollY)]_vars

\* the first scroll frame of a later page, right after the pause before it
C18_Witness ==
    /\ Drawn /\ phase = "scroll" /\ inPhase = 0
    /\ page >= 1
    /\ PAGE_PAUSE_FRAMES > 0
    /\ FracEq(scrollY, Whole(page * pageHeight))
    /\ scrollY.num > 0

----------------------------------------------------------------------------
(* Properties of the pages *)

\* the offsets at which the scroll is held: 0 and the pause offset of each page
HeldOffsets ==
    {0} \cup { IF k * pageHeight < maxScroll THEN k * pageHeight ELSE maxScroll :
                   k \in 1..numPages }

\* line i (from 0) lies whole within the band at offset s
ShownWhole(i, s) == s <= i * LH /\ (i + 1) * LH <= s + visH

\* line i (from 0) has a part within the band at offset s
Intersects(i, s) == i * LH < s + visH /\ (i + 1) * LH > s

\* C19: with overlap >= 1 and a band of at least two line heights, every line
\* lies whole within the band at some held offset; and at every held offset,
\* and on every frame held there, the culling test draws every line that has a
\* part within the band.
C19_EveryLineShown ==
    /\ pc = "layout" /\ overlap >= 1 /\ visH >= 2 * LH =>
          \A i \in 0..(Len(lines) - 1) : \E s \in HeldOffsets : ShownWhole(i, s)
    /\ pc = "layout" =>
          \A s \in HeldOffsets : \A i \in 0..(Len(lines) - 1) :
              Intersects(i, s) => LineDrawn(i, Whole(s))
    /\ Drawn /\ phase \in {"hold", "pause"} =>
          /\ scrollY.den = 1 /\ scrollY.num \in HeldOffsets
          /\ \A i \in 0..(Len(lines) - 1) :
                Intersects(i, scrollY.num) => i \in drawnLines

\* a frame paused on a page other than the last one, with a line cut by the
\* top of the band and a line cut by its bottom, both drawn, and overlap
C19_Witness ==
    /\ Drawn /\ phase = "pause"
    /\ overlap >= 1
    /\ numPages >= 2 /\ page < numPages - 1
    /\ \E i \in drawnLines : i * LH < scrollY.num /\ (i + 1) * LH > scrollY.num
    /\ \E i \in drawnLines :
          i * LH < scrollY.num + visH /\ (i + 1) * LH > scrollY.num + visH
    /\ \E i \in drawnLines : ShownWhole(i, scrollY.num) /\ ~ShownWhole(i, 0)

----------------------------------------------------------------------------
(* Divisors of the frame loop *)

\* C20: for every accepted configuration the divisors of the frame loop are
\* positive: ZOOM_FRAMES >= 1, PAGE_SCROLL_FRAMES >= 1, pageHeight >= LH > 0,
\* pageLen > 0 whenever there is a scroll phase, and HOLD_AFTER_ZOOM or
\* PAGE_PAUSE_FRAMES > 0 on every frame whose bar fraction is computed; with
\* pageWait = 0 there is no hold and no pause frame; so every fraction of a
\* frame has a positive denominator.
C20_NoZeroDivisor ==
    /\ Planned /\ fps >= 1 /\ pageWait2 >= 0 /\ overlap >= 0 =>
          /\ ZOOM_FRAMES >= 1
          /\ PAGE_SCROLL_FRAMES >= 1
          /\ LH > 0 /\ pageHeight >= LH
          /\ winW > 0
          /\ hasScroll => pageLen > 0 /\ numPages >= 1
    /\ Drawn =>
          /\ zoom.den > 0 /\ scrollY.den > 0 /\ barProgress.den > 0
          /\ phase = "hold" => HOLD_AFTER_ZOOM > 0 /\ barProgress.den = HOLD_AFTER_ZOOM
          /\ phase = "pause" =>
                PAGE_PAUSE_FRAMES > 0 /\ barProgress.den = PAGE_PAUSE_FRAMES
          /\ phase \in {"zoomIn", "scroll", "zoomOut", "finalHold"} =>
                barProgress.num = -1
          /\ pageWait2 = 0 => phase \notin {"hold", "pause"}

\* a scroll frame of a later page at the lowest rate and without any pause
C20_Witness ==
    /\ Drawn /\ phase = "scroll"
    /\ fps = 1 /\ pageWait2 = 0
    /\ page >= 1
    /\ pageLen = 1

====
